---------------------------- MODULE Spec2Model ----------------------------
(***************************************************************************)
(* EKF-SLAM estimation core (src/slam/EKFSLAM.py): predict, update,        *)
(* associate, add_landmarks and NEESes, modelled over exact arithmetic.    *)
(*                                                                         *)
(* Numbers.  numpy's float64 arithmetic is modelled by exact rationals     *)
(* <<n, d>> (d > 0, lowest terms).  Angles and everything an angle is      *)
(* added to (the entries of eta, z, zpred and the innovation) are numbers  *)
(* a + b*(pi/2) with a, b rational, written <<a, b>>.  Trigonometry is     *)
(* evaluated only at whole quarter turns (a = 0, b an integer), where      *)
(* cos and sin are 0, 1 or -1, and norms only of axis-aligned vectors:     *)
(* there the model computes exactly what the code computes up to rounding. *)
(* A call whose trigonometry would leave that grid is outside the model.   *)
(***************************************************************************)
EXTENDS Integers, Sequences, FiniteSets, TLC

VARIABLES eta, P, Q, R, do_asso, sensor_offset, call, ncalls

vars == <<eta, P, Q, R, do_asso, sensor_offset, call, ncalls>>

(***************************************************************************)
(* Bounds of the model.                                                    *)
(***************************************************************************)
MaxLmk == 2
MaxCalls == 3

---------------------------------------------------------------------------
(* Exact rational arithmetic.                                              *)

Abs(i) == IF i < 0 THEN -i ELSE i

RECURSIVE GCD(_, _)
GCD(i, j) == IF j = 0 THEN i ELSE GCD(j, i % j)

Rat(n, d) ==
    LET s == IF d < 0 THEN -1 ELSE 1
        g == GCD(Abs(n), Abs(d))
    IN  <<(s * n) \div g, (s * d) \div g>>

RInt(i) == <<i, 1>>
RZero == <<0, 1>>
ROne == <<1, 1>>

RAdd(p, q) ==
    IF q[1] = 0 THEN p
    ELSE IF p[1] = 0 THEN q
    ELSE IF p[2] = 1 /\ q[2] = 1 THEN <<p[1] + q[1], 1>>
    ELSE LET g == GCD(p[2], q[2])
         IN  Rat(p[1] * (q[2] \div g) + q[1] * (p[2] \div g),
                 p[2] * (q[2] \div g))

RNeg(p) == <<-p[1], p[2]>>

RSub(p, q) == RAdd(p, RNeg(q))

RMul(p, q) ==
    IF p[1] = 0 \/ q[1] = 0 THEN RZero
    ELSE IF p[2] = 1 /\ q[2] = 1 THEN <<p[1] * q[1], 1>>
    ELSE LET g1 == GCD(Abs(p[1]), q[2])
             g2 == GCD(Abs(q[1]), p[2])
         IN  <<(p[1] \div g1) * (q[1] \div g2), (p[2] \div g2) * (q[2] \div g1)>>

\* p / q for q # 0
RDiv(p, q) ==
    RMul(p, IF q[1] < 0 THEN <<-q[2], -q[1]>> ELSE <<q[2], q[1]>>)

RSign(p) == IF p[1] > 0 THEN 1 ELSE IF p[1] < 0 THEN -1 ELSE 0

RAbs(p) == <<Abs(p[1]), p[2]>>

---------------------------------------------------------------------------
(* Dense vectors and matrices of rationals: a matrix is a sequence of rows.*)

\* the sequence s with its entries evaluated
Eval(s) == s \o <<>>

RECURSIVE RSum(_, _)
RSum(s, k) == IF k = 0 THEN RZero ELSE RAdd(RSum(s, k - 1), s[k])

MCols(A) == IF Len(A) = 0 THEN 0 ELSE Len(A[1])

\* the matrix with the rows A[1], A[2], ..., its entries evaluated
Mat(A) == Eval([i \in 1..Len(A) |-> Eval(A[i])])

\* A.T
MT(A, ncols) ==
    LET E(i, j) == A[j][i]
    IN  Mat([i \in 1..ncols |-> [j \in 1..Len(A) |-> E(i, j)]])

\* A @ B, B having ncols columns
MMul(A, B, ncols) ==
    LET E(i, j) == RSum([k \in 1..Len(B) |-> RMul(A[i][k], B[k][j])], Len(B))
    IN  Mat([i \in 1..Len(A) |-> [j \in 1..ncols |-> E(i, j)]])

MAdd(A, B) ==
    LET E(i, j) == RAdd(A[i][j], B[i][j])
    IN  Mat([i \in 1..Len(A) |-> [j \in 1..MCols(A) |-> E(i, j)]])

\* A[r1:r2, c1:c2] in numpy's half-open, zero-based slices
Slice(A, r1, r2, c1, c2) ==
    LET E(i, j) == A[r1 + i][c1 + j]
    IN  Mat([i \in 1..(r2 - r1) |-> [j \in 1..(c2 - c1) |-> E(i, j)]])

\* np.eye(n)
Eye(n) ==
    LET E(i, j) == IF i = j THEN ROne ELSE RZero
    IN  Mat([i \in 1..n |-> [j \in 1..n |-> E(i, j)]])

IsSymmetric(A) ==
    /\ \A i \in 1..Len(A) : Len(A[i]) = Len(A)
    /\ \A i, j \in 1..Len(A) : A[i][j] = A[j][i]

---------------------------------------------------------------------------
(* Numbers a + b*(pi/2): <<a, b>> with a and b rational.                   *)

ARat(p) == <<p, RZero>>
AInt(i) == <<RInt(i), RZero>>
\* the angle k*(pi/2)
Quarter(k) == <<RZero, RInt(k)>>

AAdd(x, y) == <<RAdd(x[1], y[1]), RAdd(x[2], y[2])>>
ASub(x, y) == <<RSub(x[1], y[1]), RSub(x[2], y[2])>>
AScale(p, x) == <<RMul(p, x[1]), RMul(p, x[2])>>

\* x is free of pi: an ordinary rational
IsRat(x) == x[2] = RZero
\* x is a whole number of quarter turns
IsQuarter(x) == x[1] = RZero /\ x[2][2] = 1

\* rational bounds PiHalfLo < pi/2 < PiHalfHi
PiHalfLo == <<15707, 10000>>
PiHalfHi == <<15708, 10000>>

\* the sign of a + c*(pi/2), a and c rational
SignPi(a, c) ==
    IF c = RZero THEN RSign(a)
    ELSE LET lo == RSign(RAdd(a, RMul(c, PiHalfLo)))
             hi == RSign(RAdd(a, RMul(c, PiHalfHi)))
         IN  IF lo = hi THEN lo ELSE RSign(c)

\* x lies in (-pi, pi]
InPiRange(x) ==
    /\ SignPi(x[1], RSub(x[2], RInt(2))) <= 0
    /\ SignPi(x[1], RAdd(x[2], RInt(2))) > 0

\* W @ v for a rational matrix W and a vector v of numbers a + b*(pi/2)
MatVec(W, v) ==
    Eval([i \in 1..Len(W) |->
        <<RSum([k \in 1..Len(v) |-> RMul(W[i][k], v[k][1])], Len(v)),
          RSum([k \in 1..Len(v) |-> RMul(W[i][k], v[k][2])], Len(v))>>])

VAdd(v, w) == Eval([i \in 1..Len(v) |-> AAdd(v[i], w[i])])
VSub(v, w) == Eval([i \in 1..Len(v) |-> ASub(v[i], w[i])])

\* v @ M @ v as a polynomial <<c0, c1, c2>> = c0 + c1*(pi/2) + c2*(pi/2)^2
QuadForm(M, v) ==
    LET n == Len(v)
        T(p, q) == RSum([k \in 1..(n * n) |->
                       LET i == ((k - 1) \div n) + 1
                           j == ((k - 1) % n) + 1
                       IN  RMul(M[i][j], RMul(v[i][p], v[j][q]))], n * n)
    IN  <<T(1, 1), RAdd(T(1, 2), T(2, 1)), T(2, 2)>>

---------------------------------------------------------------------------
(* utils: rotations and angle wrapping, at whole quarter turns.            *)

CosQ(k) == LET m == k % 4 IN IF m = 0 THEN 1 ELSE IF m = 2 THEN -1 ELSE 0
SinQ(k) == CosQ(k + 3)

\* utils.rotmat2d(angle): [[cos, -sin], [sin, cos]]
rotmat2d(angle) ==
    LET k == angle[2][1]
    IN  <<<<RInt(CosQ(k)), RInt(-SinQ(k))>>, <<RInt(SinQ(k)), RInt(CosQ(k))>>>>

\* utils.rotmat2dDerivative(angle): d rotmat2d / d angle
rotmat2dDerivative(angle) ==
    LET k == angle[2][1]
    IN  <<<<RInt(-SinQ(k)), RInt(-CosQ(k))>>, <<RInt(CosQ(k)), RInt(-SinQ(k))>>>>

\* utils.wrapToPi(angle): the angle brought into (-pi, pi]
wrapToPi(angle) == Quarter(((angle[2][1] + 1) % 4) - 1)

---------------------------------------------------------------------------
(* scipy.linalg.cho_factor / cho_solve, in exact arithmetic.               *)

\* Gauss-Jordan elimination of the rows M = [A | B] on pivots k..n without
\* row exchanges; <<>> when a pivot is not positive (A not positive definite)
RECURSIVE Eliminate(_, _, _)
Eliminate(M, k, n) ==
    IF k > n THEN M
    ELSE IF RSign(M[k][k]) <= 0 THEN <<>>
    ELSE LET rk == Eval([j \in 1..Len(M[k]) |-> RDiv(M[k][j], M[k][k])])
             M2 == Eval([i \in 1..n |->
                       IF i = k THEN rk
                       ELSE Eval([j \in 1..Len(rk) |->
                                RSub(M[i][j], RMul(M[i][k], rk[j]))])])
         IN  Eliminate(M2, k + 1, n)

\* cho_factor(A): reads the upper triangle of A only and raises LinAlgError
\* unless the symmetric matrix it stands for is positive definite.  The
\* factorisation is represented by the exact inverse of that matrix.
cho_factor(A) ==
    LET n == Len(A)
        E(i, j) == IF j <= n THEN (IF i <= j THEN A[i][j] ELSE A[j][i])
                   ELSE IF j - n = i THEN ROne ELSE RZero
        G == Eliminate(Mat([i \in 1..n |->
                [j \in 1..(2 * n) |-> E(i, j)]]), 1, n)
    IN  IF G = <<>> THEN [ok |-> FALSE, inv |-> <<>>]
        ELSE [ok |-> TRUE, inv |-> Slice(G, 0, n, n, 2 * n)]

\* cho_solve(c, B): the solution X of A X = B
cho_solve(c, B, ncols) == MMul(c.inv, B, ncols)

---------------------------------------------------------------------------
(* EKFSLAM: the motion model and the prediction step.                      *)

\* the calls the exact arithmetic covers: f, Fx, Fu and predict take the
\* sine and cosine of the heading x[2], and wrap x[2] + u[2]
MotionExact(x, u) ==
    /\ IsQuarter(x[3]) /\ IsQuarter(u[3])
    /\ IsRat(u[1]) /\ IsRat(u[2])

\* EKFSLAM.f(x, u)
f(x, u) ==
    LET d == MatVec(rotmat2d(x[3]), <<u[1], u[2]>>)
    IN  <<AAdd(x[1], d[1]), AAdd(x[2], d[2]), wrapToPi(AAdd(x[3], u[3]))>>

\* EKFSLAM.Fx(x, u)
Fx(x, u) ==
    LET d == MatVec(rotmat2dDerivative(x[3]), <<u[1], u[2]>>)
        E(i, j) == IF j = 3 /\ i <= 2 THEN d[i][1]
                   ELSE IF i = j THEN ROne ELSE RZero
    IN  Mat([i \in 1..3 |-> [j \in 1..3 |-> E(i, j)]])

\* EKFSLAM.Fu(x, u)
Fu(x, u) ==
    LET rot == rotmat2d(x[3])
        E(i, j) == IF i <= 2 /\ j <= 2 THEN rot[i][j]
                   ELSE IF i = j THEN ROne ELSE RZero
    IN  Mat([i \in 1..3 |-> [j \in 1..3 |-> E(i, j)]])

\* predict without the mirrored block: P[3:, :3] is left as it was
PredictCov_m(Pm, FxM, FuM) ==
    LET n == Len(Pm)
        Pxx == MAdd(MMul(MMul(FxM, Slice(Pm, 0, 3, 0, 3), 3), MT(FxM, 3), 3),
                    MMul(MMul(FuM, Q, 3), MT(FuM, 3), 3))
        Pxm == MMul(FxM, Slice(Pm, 0, 3, 3, n), n - 3)
        E(i, j) == IF i <= 3 /\ j <= 3 THEN Pxx[i][j]
                   ELSE IF i <= 3 THEN Pxm[i][j - 3]
                   ELSE Pm[i][j]
    IN  Mat([i \in 1..n |-> [j \in 1..n |-> E(i, j)]])

\* the covariance prediction of predict, written into P block by block:
\* P[:3, :3], then P[:3, 3:], then P[3:, :3] = P[:3, 3:].T
PredictCov(Pm, FxM, FuM) ==
    LET n == Len(Pm)
        Pxx == MAdd(MMul(MMul(FxM, Slice(Pm, 0, 3, 0, 3), 3), MT(FxM, 3), 3),
                    MMul(MMul(FuM, Q, 3), MT(FuM, 3), 3))
        Pxm == MMul(FxM, Slice(Pm, 0, 3, 3, n), n - 3)
        E(i, j) == IF i <= 3 /\ j <= 3 THEN Pxx[i][j]
                   ELSE IF i <= 3 THEN Pxm[i][j - 3]
                   ELSE IF j <= 3 THEN Pxm[j][i - 3]
                   ELSE Pm[i][j]
    IN  Mat([i \in 1..n |-> [j \in 1..n |-> E(i, j)]])

\* predict with the Jacobians taken at the pose after the step
predict_m(e, Pm, z_odo) ==
    LET n == Len(e)
        x == SubSeq(e, 1, 3)
        xpred == f(x, z_odo)
        etapred == Eval([i \in 1..n |-> IF i <= 3 THEN xpred[i] ELSE e[i]])
    IN  <<etapred, PredictCov(Pm, Fx(xpred, z_odo), Fu(xpred, z_odo))>>

\* EKFSLAM.predict(eta, P, z_odo): <<etapred, P>>
predict(e, Pm, z_odo) ==
    LET n == Len(e)
        x == SubSeq(e, 1, 3)
        xpred == f(x, z_odo)
        etapred == Eval([i \in 1..n |-> IF i <= 3 THEN xpred[i] ELSE e[i]])
    IN  <<etapred, PredictCov(Pm, Fx(x, z_odo), Fu(x, z_odo))>>

---------------------------------------------------------------------------
(* EKFSLAM: the measurement model and its Jacobian.                        *)

\* the number of landmarks in eta
NumLmk(e) == (Len(e) - 3) \div 2

\* m[:, i]: the i-th landmark of eta, i = 0, 1, ...
Lmk(e, i) == <<e[3 + 2 * i + 1], e[3 + 2 * i + 2]>>

\* zc[:, i]: landmark i relative to the sensor, in the world frame
SensorToLmk(e, i) ==
    LET delta_m == VSub(Lmk(e, i), <<e[1], e[2]>>)
    IN  VSub(delta_m, MatVec(rotmat2d(e[3]), sensor_offset))

\* np.linalg.norm of an axis-aligned rational vector
Norm(v) == IF v[1] = RZero THEN RAbs(v[2]) ELSE RAbs(v[1])

\* np.arctan2(y, x) of an axis-aligned rational vector, in quarter turns
ArcTan2(y, x) ==
    IF RSign(y) = 0 THEN (IF RSign(x) < 0 THEN Quarter(2) ELSE Quarter(0))
    ELSE IF RSign(y) > 0 THEN Quarter(1) ELSE Quarter(-1)

\* zc[:, i] is free of pi and lies along an axis
ZcExact(zc) ==
    /\ IsRat(zc[1]) /\ IsRat(zc[2])
    /\ (zc[1][1] = RZero) # (zc[2][1] = RZero)

\* the states the exact arithmetic covers: h and h_jac take the sine and
\* cosine of the heading and the norm and arctan2 of every zc[:, i]
MeasExact(e) ==
    /\ IsQuarter(e[3])
    /\ \A i \in 0..(NumLmk(e) - 1) : ZcExact(SensorToLmk(e, i))

\* zc[:, i] as a vector of rationals
Zc(e, i) == Eval([k \in 1..2 |-> SensorToLmk(e, i)[k][1]])

\* EKFSLAM.h(eta): [range1, bearing1, range2, bearing2, ...]
h(e) ==
    LET zr(i) == Norm(Zc(e, i))
        zb(i) == LET zpos == MatVec(MT(rotmat2d(e[3]), 2), SensorToLmk(e, i))
                 IN  ArcTan2(zpos[2][1], zpos[1][1])
    IN  Eval([k \in 1..(2 * NumLmk(e)) |->
            IF k % 2 = 1 THEN ARat(zr((k - 1) \div 2)) ELSE zb((k - 1) \div 2)])

\* diff of h_jac: np.block([-np.eye(2), -Rpihalf @ delta])
Diff(delta) ==
    LET E(i, j) == IF j <= 2 THEN (IF i = j THEN RNeg(ROne) ELSE RZero)
                   ELSE RNeg(MatVec(rotmat2d(Quarter(1)), delta)[i][1])
    IN  Mat([i \in 1..2 |-> [j \in 1..3 |-> E(i, j)]])

\* v / s for a vector v and a scalar s
VDiv(v, s) == Eval([k \in 1..Len(v) |-> RDiv(v[k], s)])

\* np.block([[Hx_i_r], [Hx_i_b]]) of h_jac, nrm being np.linalg.norm(zc_i)
HxBlock(zc_i, nrm, diff) ==
    <<MMul(<<VDiv(zc_i, nrm)>>, diff, 3)[1],
      MMul(<<VDiv(MMul(<<zc_i>>, MT(rotmat2d(Quarter(1)), 2), 2)[1],
                  RMul(nrm, nrm))>>, diff, 3)[1]>>

\* Hx_i of h_jac: the 2 x 3 Jacobian of measurement i with respect to the pose
Hx_i(e, i) ==
    HxBlock(Zc(e, i), Norm(Zc(e, i)), Diff(VSub(Lmk(e, i), <<e[1], e[2]>>)))

\* H of h_jac filled block by block: H[inds, 0:3] = Hx_i and
\* H[inds, col_inds] = -Hx_i[:2, :2], Hx being the list of the blocks Hx_i
HFill(Hx) ==
    LET E(r, c) ==
            LET i == (r - 1) \div 2
                row == ((r - 1) % 2) + 1
                col == IF c <= 3 THEN c ELSE ((c - 4) % 2) + 1
                there == c <= 3 \/ (c - 4) \div 2 = i
            IN  IF ~there THEN RZero
                ELSE IF c <= 3 THEN Hx[i + 1][row][col]
                ELSE RNeg(Hx[i + 1][row][col])
    IN  Mat([i \in 1..(2 * Len(Hx)) |->
            [j \in 1..(3 + 2 * Len(Hx)) |-> E(i, j)]])

\* EKFSLAM.h_jac(eta): 2L x (3 + 2L)
h_jac(e) == HFill(Eval([k \in 1..NumLmk(e) |-> Hx_i(e, k - 1)]))

---------------------------------------------------------------------------
(* EKFSLAM: landmark initialisation.                                       *)

\* the calls the exact arithmetic covers: add_landmarks takes the sine and
\* cosine of eta[2] and of every bearing + eta[2], and scales by the range
AddExact(e, z) ==
    /\ IsQuarter(e[3])
    /\ \A k \in 1..Len(z) : IF k % 2 = 1 THEN IsRat(z[k]) ELSE IsQuarter(z[k])

\* Gx[inds, :] of add_landmarks for the measurement zj = <<range, bearing>>
GxRows(e, zj) ==
    LET rot == rotmat2d(AAdd(zj[2], e[3]))
        sensor_offset_world_der ==
            MatVec(rotmat2d(AAdd(e[3], Quarter(1))), sensor_offset)
        E(i, j) == IF j <= 2 THEN (IF i = j THEN ROne ELSE RZero)
                   ELSE RAdd(RMul(zj[1][1], rot[i][2]),
                             sensor_offset_world_der[i][1])
    IN  Mat([i \in 1..2 |-> [j \in 1..3 |-> E(i, j)]])

\* Gz of add_landmarks for the measurement zj
GzOf(e, zj) ==
    LET rot == rotmat2d(AAdd(zj[2], e[3]))
    IN  MMul(rot, <<<<ROne, RZero>>, <<RZero, zj[1][1]>>>>, 2)

\* lmnew[inds] of add_landmarks: the new landmark in the world frame
LmNew(e, zj) ==
    LET rot == rotmat2d(AAdd(zj[2], e[3]))
        sensor_offset_world == MatVec(rotmat2d(e[3]), sensor_offset)
    IN  Eval([i \in 1..2 |->
            AAdd(AAdd(AScale(rot[i][1], zj[1]), e[i]), sensor_offset_world[i])])

\* the new-landmark block with the pose uncertainty kept on the diagonal
\* blocks only
NewBlock_m(e, Pm, z, GxM) ==
    LET k2 == Len(z)
        Full == MMul(MMul(GxM, Slice(Pm, 0, 3, 0, 3), 3), MT(GxM, 3), k2)
        Rall(i, j) ==
            IF (i - 1) \div 2 # (j - 1) \div 2 THEN RZero
            ELSE LET jj == (i - 1) \div 2
                     Gz == GzOf(e, <<z[2 * jj + 1], z[2 * jj + 2]>>)
                     B == MMul(MMul(Gz, R, 2), MT(Gz, 2), 2)
                 IN  RAdd(B[((i - 1) % 2) + 1][((j - 1) % 2) + 1], Full[i][j])
    IN  Mat([i \in 1..k2 |-> [j \in 1..k2 |-> Rall(i, j)]])

\* the new-landmark block handed to la.block_diag: Gx @ P[:3, :3] @ Gx.T + Rall
NewBlock(e, Pm, z, GxM) ==
    LET k2 == Len(z)
        Rall(i, j) ==
            IF (i - 1) \div 2 # (j - 1) \div 2 THEN RZero
            ELSE LET jj == (i - 1) \div 2
                     Gz == GzOf(e, <<z[2 * jj + 1], z[2 * jj + 2]>>)
                     B == MMul(MMul(Gz, R, 2), MT(Gz, 2), 2)
                 IN  B[((i - 1) % 2) + 1][((j - 1) % 2) + 1]
    IN  MAdd(MMul(MMul(GxM, Slice(Pm, 0, 3, 0, 3), 3), MT(GxM, 3), k2),
             Mat([i \in 1..k2 |-> [j \in 1..k2 |-> Rall(i, j)]]))

\* the new landmarks put in front of the tracked ones
AppendLmk_m(e, lmnew) == SubSeq(e, 1, 3) \o lmnew \o SubSeq(e, 4, Len(e))

\* etaadded of add_landmarks: np.append(eta, lmnew)
AppendLmk(e, lmnew) == e \o lmnew

\* Padded of add_landmarks: block_diag(P, Pnew), then the cross blocks
\* Padded[n:, :n] = Gx @ P[:3, :] and Padded[:n, n:] = its transpose
Padded(Pm, Pnew, Pcross) ==
    LET n == Len(Pm)
        k2 == Len(Pnew)
        E(i, j) == IF i <= n /\ j <= n THEN Pm[i][j]
                   ELSE IF i > n /\ j > n THEN Pnew[i - n][j - n]
                   ELSE IF i > n THEN Pcross[i - n][j]
                   ELSE Pcross[j - n][i]
    IN  Mat([i \in 1..(n + k2) |-> [j \in 1..(n + k2) |-> E(i, j)]])

\* EKFSLAM.add_landmarks(eta, P, z): <<etaadded, Padded>>
add_landmarks(e, Pm, z) ==
    LET n == Len(Pm)
        numLmk == Len(z) \div 2
        zj(j) == <<z[2 * j + 1], z[2 * j + 2]>>
        lmnew == Eval([k \in 1..(2 * numLmk) |->
                     LmNew(e, zj((k - 1) \div 2))[((k - 1) % 2) + 1]])
        GxE(i, j) == GxRows(e, zj((i - 1) \div 2))[((i - 1) % 2) + 1][j]
        GxM == Mat([i \in 1..(2 * numLmk) |-> [j \in 1..3 |-> GxE(i, j)]])
    IN  <<AppendLmk(e, lmnew),
          Padded(Pm, NewBlock(e, Pm, z, GxM),
                 MMul(GxM, Slice(Pm, 0, 3, 0, n), n))>>

---------------------------------------------------------------------------
(* EKFSLAM: data association.                                              *)

\* JCBB(z, zpred, S, alpha1, alpha2): the joint-compatibility search, known
\* by its contract only: one entry per detection, -1 or a landmark index.
\* The set of answers it may give for numDet detections and numLmk landmarks.
JCBB(numDet, numLmk) == [1..numDet -> (-1)..(numLmk - 1)]

\* s[mask]: numpy's boolean-mask indexing
RECURSIVE Compress(_, _)
Compress(s, mask) ==
    IF Len(s) = 0 THEN <<>>
    ELSE (IF mask[1] THEN <<s[1]>> ELSE <<>>) \o
         Compress(Tail(s), Tail(Eval(mask)))

\* zinds of associate: the flat entries of z of the associated detections
ZInds(z, a) == [k \in 1..Len(z) |-> a[((k - 1) \div 2) + 1] > -1]

\* zbarinds with the associated landmarks taken in landmark order instead of
\* detection order
ZBarInds_m(a, len) ==
    LET am == SortSeq(Compress(a, [i \in 1..Len(a) |-> a[i] > -1]),
                      LAMBDA x, y : x < y)
    IN  [k \in 1..len |-> IF k % 2 = 1 THEN 2 * am[((k - 1) \div 2) + 1]
                          ELSE 2 * am[((k - 1) \div 2) + 1] + 1]

\* zbarinds of associate: the (zero-based) flat entries of zpred of the
\* landmarks associated, in detection order
ZBarInds(a, len) ==
    LET am == Compress(a, [i \in 1..Len(a) |-> a[i] > -1])
    IN  [k \in 1..len |-> IF k % 2 = 1 THEN 2 * am[((k - 1) \div 2) + 1]
                          ELSE 2 * am[((k - 1) \div 2) + 1] + 1]

\* EKFSLAM.associate(z, zpred, H, S), a being what JCBB answers.  With
\* do_asso off the function falls off its end and returns None.
associate(z, zpred, H, S, a) ==
    IF do_asso
    THEN LET zass == Compress(z, ZInds(z, a))
             zbarinds == ZBarInds(a, Len(zass))
             zpredass == Eval([k \in 1..Len(zass) |-> zpred[zbarinds[k] + 1]])
             SE(r, c) == S[zbarinds[r] + 1][zbarinds[c] + 1]
             Sass == Mat([i \in 1..Len(zass) |->
                     [j \in 1..Len(zass) |-> SE(i, j)]])
             Hass == Eval([k \in 1..Len(zass) |-> H[zbarinds[k] + 1]])
         IN  [none |-> FALSE, za |-> zass, zpred |-> zpredass, Ha |-> Hass,
              Sa |-> Sass, a |-> a]
    ELSE [none |-> TRUE]

---------------------------------------------------------------------------
(* EKFSLAM: the update step.                                               *)

\* z.ravel(): the (#detections, 2) batch as a flat vector
RECURSIVE Ravel(_)
Ravel(z) == IF Len(z) = 0 THEN <<>> ELSE z[1] \o Ravel(Tail(z))

\* NIS = 1
NISOne == <<ROne, RZero, RZero>>

\* the block-diagonal matrix with k copies of R: np.kron(np.eye(k), R)
KronR(k) ==
    LET E(i, j) == IF (i - 1) \div 2 = (j - 1) \div 2
                   THEN R[((i - 1) % 2) + 1][((j - 1) % 2) + 1] ELSE RZero
    IN  Mat([i \in 1..(2 * k) |-> [j \in 1..(2 * k) |-> E(i, j)]])

\* v of update: za - zpred with the bearings wrapped
Innovation(za, zpred) ==
    Eval([k \in 1..Len(za) |->
        IF k % 2 = 0 THEN wrapToPi(VSub(za, zpred)[k]) ELSE VSub(za, zpred)[k]])

\* W of update: la.cho_solve(S_cho_factors, Ha @ P.T).T
Gain(S_cho_factors, Ha, Pm) ==
    MT(cho_solve(S_cho_factors, MMul(Ha, MT(Pm, Len(Pm)), Len(Pm)), Len(Pm)),
       Len(Pm))

\* jo of update: -W @ Ha with 1 added on the diagonal
Jo(WH) ==
    LET E(i, j) == IF i = j THEN RAdd(RNeg(WH[i][j]), ROne) ELSE RNeg(WH[i][j])
    IN  Mat([i \in 1..Len(WH) |-> [j \in 1..Len(WH) |-> E(i, j)]])

\* Pupd of update in Joseph form: jo @ P @ jo.T + W @ kron(eye, R) @ W.T
JosephForm(jo, W, Pm, m) ==
    MAdd(MMul(MMul(jo, Pm, Len(Pm)), MT(jo, Len(Pm)), Len(Pm)),
         MMul(MMul(W, KronR(m \div 2), m), MT(W, m), Len(Pm)))

\* the corrected estimate, W being the gain and v the innovation
Corrected(e, Pm, asso, v, W, NIS) ==
    [status |-> "ok", eta |-> VAdd(e, MatVec(W, v)),
     P |-> JosephForm(Jo(MMul(W, asso.Ha, Len(e))), W, Pm, Len(asso.za)),
     NIS |-> NIS, a |-> asso.a]

\* the correction once Sa.T has been handed to cho_factor, which raises
\* LinAlgError unless Sa.T is positive definite
Factored(e, Pm, asso, S_cho_factors, v) ==
    IF ~S_cho_factors.ok THEN [status |-> "LinAlgError"]
    ELSE Corrected(e, Pm, asso, v, Gain(S_cho_factors, asso.Ha, Pm),
                   QuadForm(S_cho_factors.inv, v))

\* the Kalman correction of update, for a non-empty associated set
KalmanUpdate(e, Pm, asso) ==
    Factored(e, Pm, asso, cho_factor(MT(asso.Sa, Len(asso.za))),
             Innovation(asso.za, asso.zpred))

\* no association: the estimate is kept, but NIS is reported as 0
SkipUpdate_m(e, Pm, a) ==
    [status |-> "ok", eta |-> e, P |-> Pm, NIS |-> <<RZero, RZero, RZero>>,
     a |-> a]

\* update when no association could be made: the update is skipped
SkipUpdate(e, Pm, a) ==
    [status |-> "ok", eta |-> e, P |-> Pm, NIS |-> NISOne, a |-> a]

\* no landmark tracked: the detections flagged 0 (np.zeros) instead of -1
AllNew_m(e, Pm, z) ==
    [status |-> "ok", eta |-> e, P |-> Pm, NIS |-> NISOne,
     a |-> [i \in 1..Len(z) |-> 0]]

\* update when no landmark is tracked: all measurements are new landmarks
AllNew(e, Pm, z) ==
    [status |-> "ok", eta |-> e, P |-> Pm, NIS |-> NISOne,
     a |-> [i \in 1..Len(z) |-> -1]]

\* S of update: H @ P @ H.T + R, R being self.R on every diagonal block
InnovationCov(H, Pm) ==
    MAdd(MMul(MMul(H, Pm, Len(Pm)), MT(H, Len(Pm)), Len(H)),
         KronR(Len(H) \div 2))

\* update from what associate returns.  Unpacking the None that associate
\* returns with do_asso off raises TypeError.
Associated(e, Pm, asso) ==
    IF asso.none THEN [status |-> "TypeError"]
    ELSE IF Len(asso.za) = 0 THEN SkipUpdate(e, Pm, asso.a)
    ELSE KalmanUpdate(e, Pm, asso)

\* update with landmarks tracked: prediction, association and correction
Tracked(e, Pm, z, zpred, H, jc) ==
    Associated(e, Pm, associate(Ravel(z), zpred, H, InnovationCov(H, Pm), jc))

\* update up to the creation of new landmarks
Correct(e, Pm, z, jc) ==
    IF NumLmk(e) > 0 THEN Tracked(e, Pm, z, h(e), h_jac(e), jc)
    ELSE AllNew(e, Pm, z)

\* z_new of update: the flat measurements of the detections with a[i] = -1
ZNew(z, a) ==
    Compress(Ravel(z), [k \in 1..(2 * Len(z)) |-> a[((k - 1) \div 2) + 1] = -1])

\* etaupd, Pupd = self.add_landmarks(etaupd, Pupd, z_new)
Added(c, added) == [c EXCEPT !.eta = added[1], !.P = added[2]]

\* the end of update: the detections flagged -1 become new landmarks
CreateNew(c, z) ==
    IF c.status # "ok" THEN c
    ELSE IF do_asso /\ (\E i \in 1..Len(c.a) : c.a[i] = -1)
    THEN Added(c, add_landmarks(c.eta, c.P, ZNew(z, c.a)))
    ELSE c

\* EKFSLAM.update(eta, P, z), jc being what JCBB answers when it is asked
update(e, Pm, z, jc) == CreateNew(Correct(e, Pm, z, jc), z)

\* the calls the exact arithmetic covers: the measurements are exact, and
\* so are the state h and h_jac read and the state add_landmarks reads
InputExact(e, z) ==
    /\ AddExact(<<e[1], e[2], Quarter(0)>>, Ravel(z))
    /\ NumLmk(e) > 0 => MeasExact(e)

\* add_landmarks leaves the heading as it is: the landmarks of the result r
\* were created at a whole quarter turn
CreateExact(r) ==
    (r.status = "ok" /\ do_asso /\ (\E i \in 1..Len(r.a) : r.a[i] = -1))
        => IsQuarter(r.eta[3])

---------------------------------------------------------------------------
(* The filter as its caller drives it: predict and update in any order.    *)

Zero3 == <<AInt(0), AInt(0), AInt(0)>>

IntMat(A) ==
    LET E(i, j) == RInt(A[i][j])
    IN  Mat([i \in 1..Len(A) |-> [j \in 1..(Len(A[1])) |-> E(i, j)]])

\* the estimates <<eta, P>> the caller starts the filter from: the pose alone,
\* or, for a filter built with do_asso off, the pose and one landmark tracked
\* already; P symmetric, positive definite
InitEstimates ==
    {<<Zero3, IntMat(<<<<2, 1, 0>>, <<1, 2, 0>>, <<0, 0, 1>>>>)>>,
     <<Zero3 \o <<AInt(2), AInt(0)>>,
       IntMat(<<<<2, 1, 0, 1, 0>>, <<1, 2, 0, 0, 1>>, <<0, 0, 1, 0, 0>>,
                <<1, 0, 0, 3, 0>>, <<0, 1, 0, 0, 3>>>>)>>}

\* process and measurement noise: symmetric, positive definite
Qs == {IntMat(<<<<2, 1, 0>>, <<1, 2, 1>>, <<0, 1, 1>>>>)}
Rs == {IntMat(<<<<2, 1>>, <<1, 2>>>>)}
SensorOffsets == {<<AInt(0), AInt(0)>>, <<AInt(1), AInt(0)>>}

\* odometry inputs <<dx, dy, dheading>>
Odometry == {<<AInt(1), AInt(0), Quarter(0)>>, <<AInt(1), AInt(0), Quarter(2)>>}

\* detections <<range, bearing>> and batches of them
MaxDet == 2
Detections == {<<AInt(1), Quarter(0)>>, <<AInt(2), Quarter(1)>>}
Batches == UNION {[1..k -> Detections] : k \in 0..MaxDet}

Init ==
    /\ \E est \in InitEstimates : eta = est[1] /\ P = est[2]
    /\ Q \in Qs
    /\ R \in Rs
    /\ do_asso \in (IF NumLmk(eta) = 0 THEN BOOLEAN ELSE {FALSE})
    /\ sensor_offset \in SensorOffsets
    /\ call = [op |-> "init"]
    /\ ncalls = 0

Predict ==
    /\ ncalls < MaxCalls
    /\ \E u \in Odometry :
          /\ MotionExact(eta, u)
          /\ LET r == predict(eta, P, u)
             IN  /\ eta' = r[1]
                 /\ P' = r[2]
                 /\ call' = [op |-> "predict", status |-> "ok", eta_in |-> eta,
                             P_in |-> P, u |-> u]
    /\ ncalls' = ncalls + 1
    /\ UNCHANGED <<Q, R, do_asso, sensor_offset>>

\* the number of landmarks after an update that answers a
LmkAfter(e, z, jc) ==
    IF ~do_asso THEN NumLmk(e)
    ELSE IF NumLmk(e) = 0 THEN Len(z)
    ELSE NumLmk(e) + Cardinality({i \in 1..Len(z) : jc[i] = -1})

\* what a call of update leaves behind: the new estimate, or the exception
\* raised and the estimate as it was
Return(r, z) ==
    /\ CreateExact(r)
    /\ IF r.status = "ok"
       THEN /\ eta' = r.eta
            /\ P' = r.P
            /\ call' = [op |-> "update", status |-> "ok", eta_in |-> eta,
                        P_in |-> P, z |-> z, NIS |-> r.NIS, a |-> r.a]
       ELSE /\ UNCHANGED <<eta, P>>
            /\ call' = [op |-> "update", status |-> r.status, eta_in |-> eta,
                        P_in |-> P, z |-> z]

Update ==
    /\ ncalls < MaxCalls
    /\ \E z \in Batches :
          \E jc \in (IF do_asso /\ NumLmk(eta) > 0
                     THEN JCBB(Len(z), NumLmk(eta)) ELSE {<<>>}) :
             /\ LmkAfter(eta, z, jc) <= MaxLmk
             /\ InputExact(eta, z)
             /\ Return(update(eta, P, z, jc), z)
    /\ ncalls' = ncalls + 1
    /\ UNCHANGED <<Q, R, do_asso, sensor_offset>>

Next == Predict \/ Update

Spec == Init /\ [][Next]_vars

---------------------------------------------------------------------------
(* Properties of the filter driven by predict and update (Spec).           *)

Updated == call.op = "update"
Returned == call.op \in {"predict", "update"} /\ call.status = "ok"
LmkIn == NumLmk(call.eta_in)
Flagged(a) == {i \in 1..Len(a) : a[i] = -1}
AllFlagged(a) == \A i \in 1..Len(a) : a[i] = -1

\* the landmarks add_landmarks computes for the batch z at the estimate e
NewLmks(e, z) ==
    Eval([k \in 1..(2 * Len(z)) |->
        LmNew(e, z[((k - 1) \div 2) + 1])[((k - 1) % 2) + 1]])

\* C1: with association disabled every update completes, flags every
\* detection -1 and adds every detection as a new landmark.
C1_DisabledAssociationAddsAll ==
    (Updated /\ ~do_asso) =>
        /\ call.status = "ok"
        /\ Len(call.a) = Len(call.z) /\ AllFlagged(call.a)
        /\ NumLmk(eta) = LmkIn + Len(call.z)

\* C2: eta has length 3 + 2L and P is (3 + 2L) x (3 + 2L); L never
\* decreases, predict keeps L, and an update raises L by the number of
\* detections flagged -1 in the association it returns.
C2_StateDimensions ==
    /\ Len(eta) = 3 + 2 * NumLmk(eta)
    /\ Len(P) = Len(eta)
    /\ \A i \in 1..Len(P) : Len(P[i]) = Len(eta)
    /\ call.op \in {"predict", "update"} => NumLmk(eta) >= LmkIn
    /\ call.op = "predict" => NumLmk(eta) = LmkIn
    /\ (Updated /\ call.status = "ok") =>
           NumLmk(eta) = LmkIn + Cardinality(Flagged(call.a))

\* C4: an update with no landmark tracked applies no correction: the pose
\* and its covariance are returned unchanged, NIS is 1 and every detection
\* is flagged -1.
C4_NoLandmarksNoCorrection ==
    (Updated /\ LmkIn = 0) =>
        /\ call.status = "ok"
        /\ call.NIS = <<ROne, RZero, RZero>>
        /\ Len(call.a) = Len(call.z) /\ AllFlagged(call.a)
        /\ SubSeq(eta, 1, 3) = call.eta_in
        /\ Slice(P, 0, 3, 0, 3) = call.P_in

C4_Witness ==
    /\ Updated /\ LmkIn = 0 /\ call.status = "ok"
    /\ Len(call.z) = 2 /\ NumLmk(eta) = 2

C5_WitnessEmptyBatch ==
    /\ Updated /\ call.status = "ok" /\ LmkIn > 0 /\ Len(call.z) = 0

\* C6: the heading eta[2] lies in (-pi, pi] in every state the filter
\* reaches, after predict and after update.
C6_HeadingWrapped == InPiRange(eta[3])

\* C8: P is symmetric in every state the filter reaches.
C8_CovarianceSymmetric == IsSymmetric(P)

\* a Kalman correction followed by the creation of a landmark, after a
\* prediction with landmarks tracked has been made
C8_Witness ==
    /\ Updated /\ call.status = "ok" /\ LmkIn > 0
    /\ \E i \in 1..Len(call.a) : call.a[i] > -1
    /\ \E i \in 1..Len(call.a) : call.a[i] = -1
    /\ \E i, k \in 1..Len(P) : i # k /\ P[i][k] # RZero

C8_WitnessPredict ==
    call.op = "predict" /\ LmkIn > 0

\* C11: predict changes the pose-related parts of the estimate only: the
\* landmark entries of eta and the landmark-landmark block of P are kept,
\* the pose of eta becomes f(eta[:3], u), P[pose, map] becomes
\* Fx P[pose, map] with Fx taken at the pose before the step, and
\* P[map, pose] is its transpose.
C11_PredictTouchesPoseOnly ==
    call.op = "predict" =>
        LET n == Len(call.eta_in)
            x == SubSeq(call.eta_in, 1, 3)
        IN  /\ Len(eta) = n
            /\ SubSeq(eta, 4, n) = SubSeq(call.eta_in, 4, n)
            /\ SubSeq(eta, 1, 3) = f(x, call.u)
            /\ Slice(P, 3, n, 3, n) = Slice(call.P_in, 3, n, 3, n)
            /\ Slice(P, 0, 3, 3, n) =
                   MMul(Fx(x, call.u), Slice(call.P_in, 0, 3, 3, n), n - 3)
            /\ Slice(P, 3, n, 0, 3) = MT(Slice(P, 0, 3, 3, n), n - 3)

\* a prediction with a landmark tracked that turns the robot and changes
\* the block of P between the pose and the map
C11_Witness ==
    /\ call.op = "predict" /\ LmkIn > 0
    /\ eta[3] # call.eta_in[3]
    /\ Slice(P, 0, 3, 3, Len(eta)) # Slice(call.P_in, 0, 3, 3, Len(eta))
    /\ \E i \in 1..3, k \in 4..Len(eta) : P[i][k] # RZero

---------------------------------------------------------------------------
(* add_landmarks on its own: one call on an estimate that may hold a       *)
(* landmark already, at a heading of zero or a quarter turn (SpecAdd).     *)

MaxAdds == 2

Headings == {Quarter(0), Quarter(1)}

AddDetections ==
    Detections \cup {<<AInt(2), Quarter(0)>>, <<AInt(1), Quarter(3)>>}

\* the non-empty batches add_landmarks is handed
AddBatches == UNION {[1..k -> AddDetections] : k \in 1..MaxDet}

InitAdd ==
    /\ \E est \in InitEstimates, hd \in Headings :
          /\ eta = [est[1] EXCEPT ![3] = hd]
          /\ P = est[2]
    /\ Q \in Qs
    /\ R \in Rs
    /\ do_asso = TRUE
    /\ sensor_offset \in SensorOffsets
    /\ call = [op |-> "init"]
    /\ ncalls = 0

AddLandmarks ==
    /\ ncalls < MaxAdds
    /\ \E z \in AddBatches :
          /\ NumLmk(eta) + Len(z) <= MaxLmk + 1
          /\ AddExact(eta, Ravel(z))
          /\ eta' = add_landmarks(eta, P, Ravel(z))[1]
          /\ P' = add_landmarks(eta, P, Ravel(z))[2]
          /\ call' = [op |-> "add_landmarks", eta_in |-> eta, P_in |-> P,
                      z |-> z]
    /\ ncalls' = ncalls + 1
    /\ UNCHANGED <<Q, R, do_asso, sensor_offset>>

SpecAdd == InitAdd /\ [][AddLandmarks]_vars

LandmarksAdded == call.op = "add_landmarks"

\* C3: add_landmarks on a batch of k detections returns eta of length
\* len(eta) + 2k and P of size (n + 2k) x (n + 2k); the entries of eta and
\* the n x n block of P that were there are kept as they were and where they
\* were, and the new landmarks follow them in the order of the batch.
C3_AppendsKeepingExisting ==
    LandmarksAdded =>
        LET n == Len(call.eta_in)
            k == Len(call.z)
        IN  /\ Len(eta) = n + 2 * k
            /\ Len(P) = n + 2 * k
            /\ \A i \in 1..Len(P) : Len(P[i]) = n + 2 * k
            /\ SubSeq(eta, 1, n) = call.eta_in
            /\ Slice(P, 0, n, 0, n) = call.P_in
            /\ \A j \in 1..k :
                  <<eta[n + 2 * j - 1], eta[n + 2 * j]>> =
                      LmNew(call.eta_in, call.z[j])

\* two different landmarks appended behind a landmark tracked before
C3_Witness ==
    /\ LandmarksAdded
    /\ NumLmk(call.eta_in) >= 1 /\ Len(call.z) = 2
    /\ LmNew(call.eta_in, call.z[1]) # LmNew(call.eta_in, call.z[2])
    /\ Lmk(eta, 0) # LmNew(call.eta_in, call.z[1])

\* the 2 x 2 block of P between the new landmarks i and j of the last batch
NewPair(i, j) ==
    LET n == Len(call.eta_in)
    IN  Slice(P, n + 2 * i, n + 2 * i + 2, n + 2 * j, n + 2 * j + 2)

\* Gx_i @ P[pose, pose] @ Gx_j.T for the detections i and j of the last batch
PoseTerm(i, j) ==
    MMul(MMul(GxRows(call.eta_in, call.z[i + 1]),
              Slice(call.P_in, 0, 3, 0, 3), 3),
         MT(GxRows(call.eta_in, call.z[j + 1]), 3), 2)

\* Gz @ R @ Gz.T for the detection i of the last batch
NoiseTerm(i) ==
    MMul(MMul(GzOf(call.eta_in, call.z[i + 1]), R, 2),
         MT(GzOf(call.eta_in, call.z[i + 1]), 2), 2)

\* the own block of every new landmark and its block with the old state
OwnAndOldBlocks ==
    \A i \in 0..(Len(call.z) - 1) :
        /\ NewPair(i, i) = MAdd(NoiseTerm(i), PoseTerm(i, i))
        /\ Slice(P, Len(call.eta_in) + 2 * i, Len(call.eta_in) + 2 * i + 2,
                 0, Len(call.eta_in)) =
               MMul(GxRows(call.eta_in, call.z[i + 1]),
                    Slice(call.P_in, 0, 3, 0, Len(call.eta_in)),
                    Len(call.eta_in))

Zero2x2 == <<<<RZero, RZero>>, <<RZero, RZero>>>>

\* C10 as stated: in a batch of two or more, the block of P between two
\* different new landmarks is zero, each new landmark's own block is
\* Gz R Gz^T + Gx P[pose, pose] Gx^T and its block with the old state is
\* Gx P[pose, :].
C10_NoCrossTermBetweenNew ==
    (LandmarksAdded /\ Len(call.z) >= 2) =>
        /\ \A i, j \in 0..(Len(call.z) - 1) : i # j => NewPair(i, j) = Zero2x2
        /\ OwnAndOldBlocks

\* C10 amended: the block of P between two different new landmarks i and j
\* of a batch is Gx_i P[pose, pose] Gx_j^T, the pose uncertainty both were
\* created from; the measurement noise Gz R Gz^T enters a landmark's own
\* block only, and the block with the old state is Gx P[pose, :].
C10_CrossTermIsPosePropagation ==
    (LandmarksAdded /\ Len(call.z) >= 2) =>
        /\ \A i, j \in 0..(Len(call.z) - 1) :
              i # j => NewPair(i, j) = PoseTerm(i, j)
        /\ OwnAndOldBlocks

C10_Witness ==
    /\ LandmarksAdded /\ Len(call.z) >= 2
    /\ NewPair(0, 1) # Zero2x2
    /\ NewPair(0, 1) = PoseTerm(0, 1)

---------------------------------------------------------------------------
(* associate on its own, on inputs whose entries name where they come      *)
(* from, so that a selection can be read off the result (SpecAssoc).       *)

\* z, zpred, H (by rows) and S for numDet detections and numLmk landmarks
AssocInput(numDet, numLmk) ==
    [op |-> "init",
     z |-> [k \in 1..(2 * numDet) |-> <<"z", k - 1>>],
     zpred |-> [k \in 1..(2 * numLmk) |-> <<"zpred", k - 1>>],
     H |-> [r \in 1..(2 * numLmk) |-> <<"H", r - 1>>],
     S |-> [r \in 1..(2 * numLmk) |->
              [c \in 1..(2 * numLmk) |-> <<"S", r - 1, c - 1>>]]]

InitAssoc ==
    /\ \E est \in InitEstimates : eta = est[1] /\ P = est[2]
    /\ Q \in Qs
    /\ R \in Rs
    /\ do_asso \in BOOLEAN
    /\ sensor_offset = <<AInt(0), AInt(0)>>
    /\ \E numDet \in 0..(MaxDet + 1), numLmk \in 1..(MaxLmk + 1) :
          call = AssocInput(numDet, numLmk)
    /\ ncalls = 0

Associate ==
    /\ call.op = "init"
    /\ \E a \in JCBB(Len(call.z) \div 2, Len(call.zpred) \div 2) :
          call' = [op |-> "associate", z |-> call.z, zpred |-> call.zpred,
                   H |-> call.H, S |-> call.S, jcbb |-> a,
                   ret |-> associate(call.z, call.zpred, call.H, call.S, a)]
    /\ ncalls' = ncalls + 1
    /\ UNCHANGED <<eta, P, Q, R, do_asso, sensor_offset>>

SpecAssoc == InitAssoc /\ [][Associate]_vars

\* the detections (counted from 1) that a associates, and the t-th of them
Matched(a) == {i \in 1..Len(a) : a[i] > -1}
NthMatched(a, t) ==
    CHOOSE i \in Matched(a) : Cardinality({j \in Matched(a) : j < i}) = t - 1

\* the (zero-based) flat index into zpred, H and S that the flat entry k of
\* the matched measurements goes with
PredIndex(a, k) == 2 * a[NthMatched(a, ((k - 1) \div 2) + 1)] + ((k - 1) % 2)

\* C9: with association enabled, associate returns the matched detections
\* in detection order: the t-th pair of za is the pair of z of the t-th
\* associated detection i_t, the t-th pair of zpred and rows of H are those
\* of landmark a[i_t], S is the sub-matrix at those indices in that order,
\* and a is returned as the matcher gave it.
C9_AssociateSelects ==
    (call.op = "associate" /\ do_asso) =>
        LET a == call.jcbb
            m == 2 * Cardinality(Matched(a))
            ret == call.ret
        IN  /\ ~ret.none
            /\ ret.a = a /\ Len(ret.a) = Len(call.z) \div 2
            /\ Len(ret.za) = m /\ Len(ret.zpred) = m
            /\ Len(ret.Ha) = m /\ Len(ret.Sa) = m
            /\ \A k \in 1..m :
                  /\ ret.za[k] =
                        <<"z", 2 * (NthMatched(a, ((k - 1) \div 2) + 1) - 1)
                               + ((k - 1) % 2)>>
                  /\ ret.zpred[k] = <<"zpred", PredIndex(a, k)>>
                  /\ ret.Ha[k] = <<"H", PredIndex(a, k)>>
                  /\ Len(ret.Sa[k]) = m
                  /\ \A c \in 1..m :
                        ret.Sa[k][c] = <<"S", PredIndex(a, k), PredIndex(a, c)>>

\* two detections associated against the order of the landmarks, and one
\* left unassociated between them
C9_Witness ==
    /\ call.op = "associate" /\ do_asso
    /\ call.jcbb = <<1, -1, 0>>
    /\ call.ret.zpred = <<<<"zpred", 2>>, <<"zpred", 3>>, <<"zpred", 0>>,
                          <<"zpred", 1>>>>

---------------------------------------------------------------------------
(* NEESes on its own, on covariances that may be singular (SpecNEES).      *)
(* A float is [kind |-> "fin", val |-> c] with c = <<c0, c1, c2>> standing  *)
(* for c0 + c1*(pi/2) + c2*(pi/2)^2, or of kind "inf" or "nan".            *)

PZero == <<RZero, RZero, RZero>>
Fin(c) == [kind |-> "fin", val |-> c]
Inf == [kind |-> "inf", val |-> PZero]
NaN == [kind |-> "nan", val |-> PZero]

\* np.linalg.det of a 3 x 3 matrix
Det3(A) ==
    RAdd(RSub(RMul(A[1][1], RSub(RMul(A[2][2], A[3][3]), RMul(A[2][3], A[3][2]))),
              RMul(A[1][2], RSub(RMul(A[2][1], A[3][3]), RMul(A[2][3], A[3][1])))),
         RMul(A[1][3], RSub(RMul(A[2][1], A[3][2]), RMul(A[2][2], A[3][1]))))

\* rational bounds PiHalfSqLo < (pi/2)^2 < PiHalfSqHi
PiHalfSqLo == <<24674, 10000>>
PiHalfSqHi == <<24675, 10000>>

\* a lower and an upper bound of c0 + c1*(pi/2) + c2*(pi/2)^2
PolyLo(c) ==
    RAdd(c[1],
         RAdd(RMul(c[2], IF RSign(c[2]) >= 0 THEN PiHalfLo ELSE PiHalfHi),
              RMul(c[3], IF RSign(c[3]) >= 0 THEN PiHalfSqLo ELSE PiHalfSqHi)))
PolyHi(c) ==
    RAdd(c[1],
         RAdd(RMul(c[2], IF RSign(c[2]) >= 0 THEN PiHalfHi ELSE PiHalfLo),
              RMul(c[3], IF RSign(c[3]) >= 0 THEN PiHalfSqHi ELSE PiHalfSqLo)))

\* x >= 0 for a float x: false of nan
FloatNonNeg(x) ==
    IF x.kind = "fin" THEN RSign(PolyHi(x.val)) >= 0 ELSE x.kind = "inf"

\* d_heading ** 2 / P_heading in float64: a division by zero gives inf, or
\* nan for 0 / 0, and raises nothing
HeadingNEES(d_heading, P_heading) ==
    IF P_heading = RZero
    THEN (IF d_heading = Quarter(0) THEN NaN ELSE Inf)
    ELSE Fin(<<RZero, RZero,
               RDiv(RMul(d_heading[2], d_heading[2]), P_heading)>>)

\* d @ np.linalg.solve(A, d) for a positive definite A
SolveNEES(A, d) == Fin(QuadForm(cho_factor(A).inv, d))

\* NEESes[np.isnan(NEESes)] = 1.0
NanToOne(v) == [i \in 1..Len(v) |-> IF v[i].kind = "nan" THEN Fin(NISOne) ELSE v[i]]

\* the end of NEESes: the nan entries replaced, and the assertion that
\* every entry is >= 0
Checked(v) ==
    IF \A i \in 1..Len(v) : FloatNonNeg(v[i])
    THEN [status |-> "ok", NEES |-> v]
    ELSE [status |-> "AssertionError"]

\* the calls the exact arithmetic covers: the heading error is wrapped
NEESExact(x, x_gt) == IsQuarter(ASub(x[3], x_gt[3]))

\* EKFSLAM.NEESes(x, P, x_gt): [NEES_all, NEES_pos, NEES_heading]
NEESes(x, Pm, x_gt) ==
    LET d == VSub(x, x_gt)
        d_x == <<d[1], d[2], wrapToPi(d[3])>>
        singular == Det3(Pm) = RZero
    IN  Checked(NanToOne(
            <<IF singular THEN Fin(NISOne) ELSE SolveNEES(Pm, d_x),
              IF singular THEN Fin(NISOne)
              ELSE SolveNEES(Slice(Pm, 0, 2, 0, 2), SubSeq(d_x, 1, 2)),
              HeadingNEES(d_x[3], Pm[3][3])>>))

\* estimates and ground truths
Poses ==
    {Zero3, <<AInt(1), AInt(0), Quarter(1)>>, <<AInt(0), AInt(2), Quarter(2)>>,
     <<AInt(1), AInt(1), Quarter(0)>>}

\* covariances: symmetric and positive semidefinite, singular ones among them
NEESCovs ==
    {IntMat(<<<<0, 0, 0>>, <<0, 0, 0>>, <<0, 0, 0>>>>),
     IntMat(<<<<1, 0, 0>>, <<0, 1, 0>>, <<0, 0, 0>>>>),
     IntMat(<<<<1, 1, 0>>, <<1, 1, 0>>, <<0, 0, 1>>>>),
     IntMat(<<<<1, 0, 0>>, <<0, 0, 0>>, <<0, 0, 2>>>>),
     IntMat(<<<<1, 0, 0>>, <<0, 1, 0>>, <<0, 0, 1>>>>),
     IntMat(<<<<2, 1, 0>>, <<1, 2, 1>>, <<0, 1, 2>>>>)}

InitNEES ==
    /\ eta \in Poses
    /\ P \in NEESCovs
    /\ Q \in Qs
    /\ R \in Rs
    /\ do_asso = TRUE
    /\ sensor_offset = <<AInt(0), AInt(0)>>
    /\ \E x_gt \in Poses : call = [op |-> "init", x_gt |-> x_gt]
    /\ ncalls = 0

ComputeNEES ==
    /\ call.op = "init"
    /\ NEESExact(eta, call.x_gt)
    /\ call' = [op |-> "NEESes", x_gt |-> call.x_gt,
                ret |-> NEESes(eta, P, call.x_gt)]
    /\ ncalls' = ncalls + 1
    /\ UNCHANGED <<eta, P, Q, R, do_asso, sensor_offset>>

SpecNEES == InitNEES /\ [][ComputeNEES]_vars

\* C7: NEESes never raises on a degenerate covariance: with det P = 0 the
\* total and the position component are exactly 1, with P[2, 2] = 0 the
\* heading component is exactly 1 whatever the heading error, and no
\* component returned is nan, infinite or negative.
C7_SentinelOnDegenerate ==
    call.op = "NEESes" =>
        /\ call.ret.status = "ok"
        /\ Det3(P) = RZero =>
              call.ret.NEES[1] = Fin(NISOne) /\ call.ret.NEES[2] = Fin(NISOne)
        /\ P[3][3] = RZero => call.ret.NEES[3] = Fin(NISOne)
        /\ \A i \in 1..3 :
              /\ call.ret.NEES[i].kind = "fin"
              /\ RSign(PolyLo(call.ret.NEES[i].val)) >= 0
=============================================================================
